---- MODULE Spec2Model ----
(***************************************************************************)
(* Workflow orchestration engine of workflow-orchestrator: the workflow   *)
(* record and its state machine (orchestrator/models.py), the phase       *)
(* monitor and the status/resume slots (orchestrator/docker_manager.py),  *)
(* the phase orchestrator and the store (orchestrator/workflow_manager.py)*)
(* and the respond / cancel commands (cli/cli.py).                        *)
(*                                                                         *)
(* One workflow is modelled.  The orchestrating process (cmd_start) holds *)
(* the record in memory (wf) and writes it to metadata.json (disk); the   *)
(* respond and cancel commands are separate processes that load the       *)
(* record from disk, change their own copy and write it back.  The worker *)
(* (the agent in the container) writes the status slot, artifacts and log *)
(* output, and may consume the resume slot.                               *)
(***************************************************************************)
EXTENDS Naturals, Sequences, FiniteSets, TLC

\* ------------------------------------------------------------------ bounds
\* largest configured max_review_iterations explored
MaxReviewBound == 2
\* number of respond / cancel commands issued in one run
MaxCli == 1

\* ------------------------------------------------------------- optionals
\* Python's Optional[T]: None is the empty sequence, a value v is <<v>>.
None == <<>>
Some(v) == <<v>>

\* Python truthiness of an Optional[str] ("if error_message:", "x or default")
Truthy(o) == o # None /\ o # Some("")

\* ------------------------------------------------------------ state names
\* models.py WorkflowState; the three review states are used by
\* workflow_manager.py but declared in a part of models.py that is not
\* among the sources.
ReviewStates == {"reviewing", "review_blocked", "needs_rework"}

WorkflowState ==
    {"pending", "fetching_ticket", "planning", "planning_blocked", "planned",
     "executing", "execution_blocked", "creating_pr", "completed", "failed",
     "cancelled"} \cup ReviewStates

\* The blocked sub-states as the specification lists them.
BlockedSubStates == {"planning_blocked", "execution_blocked", "review_blocked"}

\* config.review_enabled / config.max_review_iterations are read by
\* workflow_manager.py; their declaration is not among the sources.
ReviewEnabledChoices == BOOLEAN
MaxReviewChoices == 1..MaxReviewBound

\* The single container of the workflow (start_workflow, line 105).
ContainerId == "c1"

\* ------------------------------------------------------- Workflow record
\* create_workflow: the record as constructed and saved (state PENDING).
NewWorkflow(maxIter) ==
    [state                 |-> "pending",
     block_info            |-> None,
     human_response        |-> None,
     error_message         |-> None,
     plan_file_path        |-> None,
     pr_url                |-> None,
     container_id          |-> None,
     review_iteration      |-> 0,
     max_review_iterations |-> maxIter,
     review_feedback       |-> None]

\* update_state that clears the container identity on a terminal state.
update_state_clearing_identity(w, new_state, error_message) ==
    [w EXCEPT !.state = new_state,
              !.error_message = IF Truthy(error_message) THEN error_message ELSE @,
              !.container_id = IF new_state \in {"completed", "failed", "cancelled"}
                               THEN None ELSE @]

\* Workflow.update_state
update_state(w, new_state, error_message) ==
    [w EXCEPT !.state = new_state,
              !.error_message = IF Truthy(error_message) THEN error_message ELSE @]

\* BlockInfo(reason, question, options)
BlockInfo(reason, question, options) ==
    [reason |-> reason, question |-> question, options |-> options]

\* Workflow.set_blocked
set_blocked(w, reason, question, options) ==
    [w EXCEPT !.block_info = Some(BlockInfo(reason, question, options)),
              !.human_response = None]

\* set_unblocked that records the response but keeps the block.
set_unblocked_keeps_block(w, response) ==
    [w EXCEPT !.human_response = Some(response)]

\* Workflow.set_unblocked
set_unblocked(w, response) ==
    [w EXCEPT !.human_response = Some(response), !.block_info = None]

\* is_blocked that also counts the active execute phase.
is_blocked_or_executing(w) ==
    w.state \in {"planning_blocked", "execution_blocked", "executing"}

\* Workflow.is_blocked
is_blocked(w) == w.state \in {"planning_blocked", "execution_blocked"}

\* is_terminal that only knows COMPLETED.
is_terminal_completed_only(w) == w.state \in {"completed"}

\* Workflow.is_terminal
is_terminal(w) == w.state \in {"completed", "failed", "cancelled"}

\* ------------------------------------------------------------ AgentStatus
AgentStatus(status, message, question, options, output_file) ==
    [status |-> status, message |-> message, question |-> question,
     options |-> options, output_file |-> output_file]

PrUrl == "https://github.com/o/r/pull/1"

\* The status documents the worker may write into .workflow-status.json.
Signals ==
    {AgentStatus("working", None, None, None, None),
     AgentStatus("blocked", None, Some("Which auth library?"),
                 Some(<<"A", "B">>), None),
     AgentStatus("blocked", Some("need a decision"), Some("Proceed?"), None, None),
     AgentStatus("complete", None, None, None, Some("plan.md")),
     AgentStatus("complete", Some("done " \o PrUrl), None, None, None),
     AgentStatus("complete", Some("NEEDS_REWORK: issues found"), None, None, None),
     AgentStatus("error", Some("boom"), None, None, None)}

\* "needs_rework" in agent_status.message.lower()   (_monitor_review)
MentionsRework(message) ==
    message \in {Some("NEEDS_REWORK: issues found")}

\* re.search(r'https://github\.com/[^/]+/[^/]+/pull/\d+', text)
UrlIn(text) ==
    IF text \in {Some("done " \o PrUrl), Some(PrUrl)} THEN Some(PrUrl) ELSE None

\* The human responses a respond command may carry (never empty: cmd_respond).
Responses == {"A", "B"}


\* ------------------------------------------------------------- variables
VARIABLES
    review_enabled,  \* config.review_enabled
    wf,              \* the orchestrating process's in-memory Workflow
    disk,            \* metadata.json: the persisted Workflow
    lastSaved,       \* what the orchestrating process wrote at its last save
    pc,              \* where the orchestrating process is
    phase,           \* the phase whose agent was launched last
    pendingSaves,    \* frames of _monitor_review (exited branch) awaiting line 430
    alive,           \* is_container_running(container_id)
    statusSlot,      \* .workflow-status.json
    statusFresh,     \* the status slot was written after the last agent launch
    awaiting,        \* an agent was launched and its phase has no terminal outcome yet
    resumeSlot,      \* .workflow-resume.json
    planFile,        \* plan.md exists (tracked while the plan phase runs)
    feedbackFile,    \* .review-feedback.json exists
    logsPr,          \* the container's output holds a pull-request URL
    cliCount,        \* respond / cancel commands issued so far
    ev               \* the step just taken and what it did

vars == <<review_enabled, wf, disk, lastSaved, pc, phase, pendingSaves, alive,
          statusSlot, statusFresh, awaiting, resumeSlot, planFile, feedbackFile, logsPr,
          cliCount, ev>>

\* The record of a step: which operation ran, on what, and the externally
\* visible actions it took (each with whether the in-memory record was
\* saved at that moment).
Ev(kind) ==
    [kind |-> kind, ok |-> TRUE, from |-> disk.state, memFrom |-> wf.state,
     cidFrom |-> disk.container_id, memCidFrom |-> wf.container_id,
     awaitingFrom |-> awaiting, iterFrom |-> wf.review_iteration,
     aliveFrom |-> alive, pcFrom |-> pc,
     outcome |-> "", rejected |-> FALSE, exc |-> "", r |-> "",
     ext |-> <<>>, snap |-> <<>>]

Ext(act, w, saved) == [act |-> act, saved |-> (w = saved)]

\* ------------------------------------------------------ docker_manager.py
\* DockerManager.check_agent_status: the parsed status slot, None if absent.
check_agent_status(slot) == slot

\* a tick that looks at the status slot before the container's liveness
wait_for_container_status_first(running, slot) ==
    LET agent_status == check_agent_status(slot) IN
    IF agent_status # None
       /\ agent_status[1].status \in {"blocked", "complete", "error"}
    THEN <<agent_status[1].status, agent_status>>
    ELSE IF ~running THEN <<"exited", None>>
    ELSE <<"running", None>>

\* DockerManager.wait_for_container: the outcome of one tick of the loop,
\* <<status, agent_status>>.
wait_for_container(running, slot) ==
    IF ~running THEN <<"exited", None>>
    ELSE LET agent_status == check_agent_status(slot) IN
         IF agent_status # None
            /\ agent_status[1].status \in {"blocked", "complete", "error"}
         THEN <<agent_status[1].status, agent_status>>
         ELSE <<"running", None>>

\* a blocked wait that also ends when the container has exited
wait_for_resume_or_exit(resume, running) == resume # None \/ ~running

\* a blocked wait that ends only while the container is running
wait_for_resume_while_running(resume, running) == resume # None /\ running

\* DockerManager._wait_for_resume: the wait ends when the resume slot exists.
wait_for_resume(resume, running) == resume # None

\* The outcomes after which wait_for_container stops (complete and error
\* break the loop, exited ends it).
PhaseEnded(status) == status \in {"complete", "error", "exited"}

\* DockerManager.clear_status_files: <<status slot, resume slot>> afterwards.
\* Neither workflow_manager.py nor cli.py calls it.
clear_status_files(status, resume) == <<None, None>>

\* DockerManager.write_agent_response
write_agent_response(response) == Some(response)

\* exec_agent_in_container(container_id, agent_type, prompt, detached=True):
\* launches the agent in the workflow's container.  It is given neither the
\* working directory nor the slots, which it leaves as they are:
\* <<status slot, resume slot>> afterwards.
exec_agent_in_container(status, resume) == <<status, resume>>

\* ---------------------------------------------------- workflow_manager.py
\* DockerManager.get_container_logs: the output of the container, with or
\* without a pull-request URL in it.
get_container_logs(hasUrl) ==
    IF hasUrl THEN "gh pr create: " \o PrUrl ELSE "npm ERR! build failed"

\* logs[-1000:] (the output modelled is shorter than 1000 characters)
LogsTail(logs) == logs

\* an error message that leaves the output out
executor_failure_message_without_logs(logs) == Some("Executor failed.")

\* f"Executor failed. Logs:\n{logs[-1000:]}"   (line 308)
executor_failure_message(logs) ==
    Some("Executor failed. Logs:\n" \o LogsTail(logs))

\* a planner error message that leaves the output out
planner_failure_message_without_logs(logs) == Some("Planner failed.")

\* f"Planner failed. Logs:\n{logs}"   (line 207)
planner_failure_message(logs) == Some("Planner failed. Logs:\n" \o logs)

\* WorkflowManager._extract_pr_url_from_logs
extract_pr_url_from_logs(hasUrl) == IF hasUrl THEN Some(PrUrl) ELSE None

\* an extraction that looks at the logs only
extract_pr_url_logs_only(agent_status, hasUrl) == extract_pr_url_from_logs(hasUrl)

\* WorkflowManager._extract_pr_url: the message first, then the logs.
extract_pr_url(agent_status, hasUrl) ==
    IF agent_status # None /\ Truthy(agent_status[1].message)
       /\ UrlIn(agent_status[1].message) # None
    THEN UrlIn(agent_status[1].message)
    ELSE extract_pr_url_from_logs(hasUrl)

\* "time" is used by _create_pr_and_complete (time.sleep) but is not among
\* the module's imports (lines 3-13).
TimeImported == FALSE

\* What a handler did: the record, the store, the next position and the
\* externally visible actions in the order taken.  exc: "" when nothing was
\* raised, "caught" when an exception was handled by the except branch of
\* the phase run it was raised in, "escaped" when it left that phase run.
Result(w, d, ls, next, ext) ==
    [wf |-> w, disk |-> d, lastSaved |-> ls, next |-> next, ext |-> ext,
     teardown |-> FALSE, push |-> FALSE, rejected |-> FALSE, exc |-> ""]

\* a handler that ends with _save_workflow(w)
Saved(w, next, ext) == Result(w, w, w, next, ext)

\* str(e) of the exception of a failed launch
LaunchError == Some("exec failed")

\* a reason that ignores the signal's message
BlockReason_default_only(agent_status, default) == default

\* The reason recorded for a block: agent_status.message or the default.
BlockReason(agent_status, default) ==
    IF Truthy(agent_status.message) THEN agent_status.message[1] ELSE default

\* a blocked branch that goes on to the execute phase instead of waiting
on_blocked_starts_execution(w, blocked_state, agent_status, default) ==
    Saved(set_blocked(update_state(w, blocked_state, None),
                      BlockReason(agent_status, default),
                      agent_status.question, agent_status.options),
          "run_execution", <<>>)

\* The blocked branch of the three monitors: update_state, set_blocked, save;
\* the generator then waits for the resume slot.
on_blocked(w, blocked_state, agent_status, default) ==
    Saved(set_blocked(update_state(w, blocked_state, None),
                      BlockReason(agent_status, default),
                      agent_status.question, agent_status.options),
          "wait_resume", <<>>)

\* an error branch that also stops and removes the container
on_error_removing_container(w, agent_status) ==
    LET w1 == update_state(w, "failed", agent_status.message) IN
    [Saved(w1, "returning", <<Ext("teardown", w1, w1)>>) EXCEPT !.teardown = TRUE]

\* The error branch of the three monitors.
on_error(w, agent_status) ==
    Saved(update_state(w, "failed", agent_status.message), "returning", <<>>)

\* The except branch of the phase runs: FAILED with str(e), saved.
on_exception(w, e, ext) ==
    [Saved(update_state(w, "failed", e), "returning", ext) EXCEPT !.exc = "caught"]

\* WorkflowManager._monitor_planning: the handling of one outcome.
monitor_planning(w, d, ls, status, agent_status, planExists) ==
    CASE status = "blocked" ->
           on_blocked(w, "planning_blocked", agent_status[1], "Planner needs input")
      [] status = "complete" ->
           Saved([update_state(w, "planned", None)
                     EXCEPT !.plan_file_path = agent_status[1].output_file],
                 "run_execution", <<>>)
      [] status = "error" -> on_error(w, agent_status[1])
      [] status = "exited" ->
           IF planExists
           THEN Saved([update_state(w, "planned", None)
                          EXCEPT !.plan_file_path = Some("plan.md")],
                      "run_execution", <<>>)
           ELSE Saved(update_state(w, "failed",
                                   planner_failure_message(get_container_logs(FALSE))),
                      "returning", <<>>)
      [] OTHER -> Result(w, d, ls, "monitor", <<>>)

\* _update_linear_ticket without its except branch: a failure propagates.
update_linear_ticket_raising(w, ls, trackerUp) ==
    IF w.pr_url = None THEN [ext |-> <<>>, raised |-> FALSE]
    ELSE IF trackerUp THEN [ext |-> <<Ext("tracker", w, ls)>>, raised |-> FALSE]
    ELSE [ext |-> <<Ext("tracker_failed", w, ls)>>, raised |-> TRUE]

\* WorkflowManager._update_linear_ticket: the tracker is updated only when the
\* record has a pr_url; a failure of the update (trackerUp is FALSE) is
\* caught and logged.  ext: what was attempted; raised: an exception leaves
\* the function.
update_linear_ticket(w, ls, trackerUp) ==
    IF w.pr_url = None THEN [ext |-> <<>>, raised |-> FALSE]
    ELSE IF trackerUp THEN [ext |-> <<Ext("tracker", w, ls)>>, raised |-> FALSE]
    ELSE [ext |-> <<Ext("tracker_failed", w, ls)>>, raised |-> FALSE]

\* WorkflowManager._monitor_execution: the handling of one outcome.
monitor_execution(w, d, ls, status, agent_status, hasUrl, review, trackerUp) ==
    CASE status = "blocked" ->
           on_blocked(w, "execution_blocked", agent_status[1], "Executor needs input")
      [] status = "complete" ->
           IF review
           THEN Result(w, d, ls, "run_review", <<>>)
           ELSE LET pr_url == extract_pr_url(agent_status, hasUrl)
                    w1 == IF pr_url # None
                          THEN [update_state(w, "completed", None)
                                   EXCEPT !.pr_url = pr_url]
                          ELSE update_state(w, "completed", None)
                    tracker == update_linear_ticket(w1, w1, trackerUp)
                IN IF tracker.raised
                   THEN on_exception(w1, Some("tracker update failed"), tracker.ext)
                   ELSE [Saved(w1, "returning",
                               tracker.ext \o <<Ext("teardown", w1, w1)>>)
                           EXCEPT !.teardown = TRUE]
      [] status = "error" -> on_error(w, agent_status[1])
      [] status = "exited" ->
           LET pr_url == extract_pr_url_from_logs(hasUrl) IN
           IF pr_url # None
           THEN LET w1 == [update_state(w, "completed", None)
                              EXCEPT !.pr_url = pr_url]
                    tracker == update_linear_ticket(w1, ls, trackerUp)
                IN IF tracker.raised
                   THEN on_exception(w1, Some("tracker update failed"), tracker.ext)
                   ELSE Saved(w1, "returning", tracker.ext)
           ELSE Saved(update_state(w, "failed",
                                   executor_failure_message(get_container_logs(hasUrl))),
                      "returning", <<>>)
      [] OTHER -> Result(w, d, ls, "monitor", <<>>)

\* The options offered when the rework bound is reached (complete branch).
EscalationOptions ==
    <<"Approve and create PR anyway", "Cancel workflow", "Manual intervention needed">>

\* The options offered when the rework bound is reached (exited branch).
ExitedEscalationOptions == <<"Approve", "Cancel">>

\* the bound compared with > instead of >=
max_iterations_exceeded(w) == w.review_iteration > w.max_review_iterations

\* workflow.review_iteration >= workflow.max_review_iterations  (line 379)
max_iterations_reached(w) == w.review_iteration >= w.max_review_iterations

\* workflow.review_iteration >= workflow.max_review_iterations  (line 415)
max_iterations_reached_exited(w) == w.review_iteration >= w.max_review_iterations

\* The question of the escalation (line 384).
EscalationQuestion(w) ==
    "Review has failed " \o ToString(w.review_iteration)
        \o " times. How should we proceed?"

\* WorkflowManager._monitor_review: the handling of one outcome.  parsed:
\* json.load of the feedback artifact succeeds; when it raises, the except
\* branch of _run_review_phase takes over.
monitor_review(w, d, ls, status, agent_status, feedbackExists, parsed) ==
    CASE status = "blocked" ->
           on_blocked(w, "review_blocked", agent_status[1], "Reviewer needs input")
      [] status = "complete" ->
           IF Truthy(agent_status[1].message) /\ MentionsRework(agent_status[1].message)
           THEN LET w0 == IF feedbackExists
                          THEN [w EXCEPT !.review_feedback = Some("feedback")]
                          ELSE w
                IN IF feedbackExists /\ ~parsed
                   THEN on_exception(w, Some("JSONDecodeError"), <<>>)
                   ELSE
                   IF max_iterations_reached(w0)
                   THEN [Saved(set_blocked(update_state(w0, "review_blocked", None),
                                           "Max review iterations reached",
                                           Some(EscalationQuestion(w0)),
                                           Some(EscalationOptions)),
                               "returning", <<>>)
                           EXCEPT !.rejected = TRUE]
                   ELSE [Saved(update_state(w0, "needs_rework", None),
                               "run_exec_feedback", <<>>)
                           EXCEPT !.rejected = TRUE]
           ELSE Result(w, d, ls, "create_pr", <<>>)
      [] status = "error" -> on_error(w, agent_status[1])
      [] status = "exited" ->
           IF feedbackExists
           THEN IF max_iterations_reached_exited(w)
                THEN [Saved(set_blocked(update_state(w, "review_blocked", None),
                                        "Max review iterations reached",
                                        Some("Continue anyway or cancel?"),
                                        Some(ExitedEscalationOptions)),
                            "returning", <<>>)
                        EXCEPT !.rejected = TRUE]
                ELSE [Result(update_state(w, "needs_rework", None), d, ls,
                             "run_exec_feedback", <<>>)
                        EXCEPT !.push = TRUE, !.rejected = TRUE]
           ELSE [Result(w, d, ls, "create_pr", <<>>) EXCEPT !.push = TRUE]
      [] OTHER -> Result(w, d, ls, "monitor", <<>>)

\* WorkflowManager.start_workflow, up to the call of _run_planning_phase.
start_workflow(w, d, ls, started) ==
    IF started
    THEN Saved(update_state([w EXCEPT !.container_id = Some(ContainerId)],
                            "planning", None),
               "run_planning", <<Ext("start", w, ls)>>)
    ELSE on_exception(w, LaunchError, <<>>)

\* WorkflowManager._run_planning_phase, up to the call of _monitor_planning.
run_planning_phase(w, d, ls, launched) ==
    IF launched
    THEN Result(w, d, ls, "monitor", <<Ext("launch", w, ls)>>)
    ELSE on_exception(w, LaunchError, <<>>)

\* _run_execution_phase that launches the executor without entering EXECUTING.
run_execution_phase_keeps_state(w, d, ls, launched) ==
    IF launched
    THEN Saved(w, "monitor", <<Ext("launch", w, w)>>)
    ELSE on_exception(w, LaunchError, <<>>)

\* WorkflowManager._run_execution_phase, up to the call of _monitor_execution.
run_execution_phase(w, d, ls, launched) ==
    LET w1 == update_state(w, "executing", None) IN
    IF launched
    THEN Saved(w1, "monitor", <<Ext("launch", w1, w1)>>)
    ELSE on_exception(w1, LaunchError, <<>>)

\* WorkflowManager._run_review_phase, up to the call of _monitor_review.
\* rendered: _get_reviewer_prompt's template.format succeeds (it raises on
\* a template with unescaped braces, as the built-in default has).  The call
\* (line 322) is outside the try of _run_review_phase: the exception leaves
\* it and is handled by the except branch of the execute phase run that
\* called it.
run_review_phase(w, d, ls, rendered, launched) ==
    LET w1 == [update_state(w, "reviewing", None)
                  EXCEPT !.review_iteration = @ + 1] IN
    IF ~rendered
    THEN [on_exception(w1, Some("KeyError"), <<>>) EXCEPT !.exc = "escaped"]
    ELSE IF launched
    THEN Saved(w1, "monitor", <<Ext("launch", w1, w1)>>)
    ELSE on_exception(w1, LaunchError, <<>>)

\* WorkflowManager._get_executor_prompt: the feedback note put in front of
\* the instructions, if any.
get_executor_prompt(w, with_feedback) ==
    IF with_feedback /\ Truthy(w.review_feedback)
    THEN Some(w.review_feedback[1])
    ELSE None

\* a re-run of the execute phase that counts as a review iteration
run_execution_with_feedback_incrementing(w, d, ls, launched) ==
    LET w1 == [w EXCEPT !.review_iteration = @ + 1] IN
    IF launched
    THEN Saved(update_state(w1, "executing", None), "monitor",
               <<Ext("launch", w, ls)
                    @@ [feedback |-> get_executor_prompt(w, TRUE)]>>)
    ELSE on_exception(w1, LaunchError, <<>>)

\* WorkflowManager._run_execution_with_feedback, up to _monitor_execution.
\* The launch carries the feedback note of the prompt.
run_execution_with_feedback(w, d, ls, launched) ==
    IF launched
    THEN Saved(update_state(w, "executing", None), "monitor",
               <<Ext("launch", w, ls)
                    @@ [feedback |-> get_executor_prompt(w, TRUE)]>>)
    ELSE on_exception(w, LaunchError, <<>>)

\* WorkflowManager._create_pr_and_complete
create_pr_and_complete(w, d, ls, launched, hasUrl, trackerUp) ==
    IF ~launched THEN on_exception(w, LaunchError, <<>>)
    ELSE IF ~TimeImported
    THEN on_exception(w, Some("name 'time' is not defined"),
                      <<Ext("launch", w, ls)>>)
    ELSE LET pr_url == extract_pr_url_from_logs(hasUrl)
             w1 == IF pr_url # None
                   THEN [update_state(w, "completed", None) EXCEPT !.pr_url = pr_url]
                   ELSE update_state(w, "completed", None)
             tracker == update_linear_ticket(w1, ls, trackerUp)
         IN IF tracker.raised
            THEN on_exception(w1, Some("tracker update failed"),
                              <<Ext("launch", w, ls)>> \o tracker.ext)
            ELSE [Saved(w1, "returning",
                        <<Ext("launch", w, ls)>> \o tracker.ext
                            \o <<Ext("teardown", w1, w1)>>)
                    EXCEPT !.teardown = TRUE]

\* WorkflowManager.respond_to_workflow, after the is_blocked check.
respond_to_workflow(w, response) ==
    LET w1 == set_unblocked(w, response) IN
    IF w1.state = "planning_blocked" THEN update_state(w1, "planning", None)
    ELSE IF w1.state = "execution_blocked" THEN update_state(w1, "executing", None)
    ELSE w1

\* a stop of the container whose failure aborts the command
stop_workflow_container_raising(stopped) == [raised |-> ~stopped]

\* cmd_cancel, lines 284-290: stop_container and remove_container log their
\* own failures and the surrounding try/except logs any other; stopped tells
\* whether the container went away.  raised: an exception leaves the block.
stop_workflow_container(stopped) == [raised |-> FALSE]

\* cmd_cancel that also clears the container identity.
cmd_cancel_clearing(w) ==
    [update_state(w, "cancelled", None) EXCEPT !.container_id = None]

\* cmd_cancel: the record written for a non-terminal workflow.
cmd_cancel(w) == update_state(w, "cancelled", None)

\* ------------------------------------------------------------------ Init
\* The state after create_workflow: the record is PENDING and saved.
Init ==
    /\ review_enabled \in ReviewEnabledChoices
    /\ \E m \in MaxReviewChoices : wf = NewWorkflow(m)
    /\ disk = wf
    /\ lastSaved = wf
    /\ pc = "created"
    /\ phase = "none"
    /\ pendingSaves = 0
    /\ alive = FALSE
    /\ statusSlot = None
    /\ statusFresh = FALSE
    /\ awaiting = FALSE
    /\ resumeSlot = None
    /\ planFile = FALSE
    /\ feedbackFile = FALSE
    /\ logsPr = FALSE
    /\ cliCount = 0
    /\ ev = Ev("create_workflow")

\* --------------------------------------------------------------- actions
envVars == <<planFile, feedbackFile, logsPr>>

\* The orchestrating process takes the step whose result is r.
ApplyEv(r, kind, outcome) ==
    /\ wf' = r.wf
    /\ disk' = r.disk
    /\ lastSaved' = r.lastSaved
    /\ pc' = r.next
    /\ pendingSaves' = IF r.push THEN pendingSaves + 1 ELSE pendingSaves
    /\ ev' = [Ev(kind) EXCEPT !.ext = r.ext, !.rejected = r.rejected,
                              !.ok = (r.wf.state # "failed"),
                              !.exc = r.exc,
                              !.outcome = outcome]

Apply(r, kind) == ApplyEv(r, kind, "")

\* An agent is launched for phase p: the slots are what the launch leaves.
Launch(p, launched) ==
    IF launched
    THEN /\ phase' = p
         /\ statusSlot' = exec_agent_in_container(statusSlot, resumeSlot)[1]
         /\ resumeSlot' = exec_agent_in_container(statusSlot, resumeSlot)[2]
         /\ statusFresh' = FALSE
         /\ awaiting' = TRUE
    ELSE UNCHANGED <<phase, statusSlot, resumeSlot, statusFresh, awaiting>>

StartWorkflow ==
    /\ pc = "created"
    /\ \E started \in BOOLEAN :
         /\ Apply(start_workflow(wf, disk, lastSaved, started), "start_workflow")
         /\ alive' = started
    /\ UNCHANGED <<review_enabled, phase, statusSlot, statusFresh, awaiting, resumeSlot,
                   envVars, cliCount>>

RunPlanningPhase ==
    /\ pc = "run_planning"
    /\ \E launched \in BOOLEAN :
         /\ Apply(run_planning_phase(wf, disk, lastSaved, launched), "run_planning")
         /\ Launch("plan", launched)
    /\ UNCHANGED <<review_enabled, alive, envVars, cliCount>>

RunExecutionPhase ==
    /\ pc = "run_execution"
    /\ \E launched \in BOOLEAN :
         /\ Apply(run_execution_phase(wf, disk, lastSaved, launched), "run_execution")
         /\ Launch("exec", launched)
    /\ planFile' = FALSE    \* read by _monitor_planning only: not tracked further
    /\ UNCHANGED <<review_enabled, alive, feedbackFile, logsPr, cliCount>>

RunReviewPhase ==
    /\ pc = "run_review"
    /\ \E rendered, launched \in BOOLEAN :
         /\ Apply(run_review_phase(wf, disk, lastSaved, rendered, launched),
                  "run_review")
         /\ Launch("review", rendered /\ launched)
    /\ UNCHANGED <<review_enabled, alive, envVars, cliCount>>

RunExecutionWithFeedback ==
    /\ pc = "run_exec_feedback"
    /\ \E launched \in BOOLEAN :
         /\ Apply(run_execution_with_feedback(wf, disk, lastSaved, launched),
                  "run_exec_feedback")
         /\ Launch("exec", launched)
    /\ UNCHANGED <<review_enabled, alive, envVars, cliCount>>

\* stop_container / remove_container are best effort: a failure is logged.
Teardown(wanted) ==
    \E stopped \in BOOLEAN : alive' = IF wanted /\ stopped THEN FALSE ELSE alive

CreatePrAndComplete ==
    /\ pc = "create_pr"
    /\ \E launched, trackerUp \in BOOLEAN :
         LET r == create_pr_and_complete(wf, disk, lastSaved, launched, logsPr,
                                         trackerUp) IN
         /\ Apply(r, "create_pr")
         /\ Launch("pr", launched)
         /\ Teardown(r.teardown)
    /\ UNCHANGED <<review_enabled, envVars, cliCount>>

\* One tick of wait_for_container and the handling of what it yields.
Monitor(p, kind, r) ==
    /\ pc = "monitor"
    /\ phase = p
    /\ ApplyEv(r, kind, wait_for_container(alive, statusSlot)[1])
    /\ Teardown(r.teardown)
    /\ awaiting' = IF PhaseEnded(wait_for_container(alive, statusSlot)[1])
                   THEN FALSE ELSE awaiting
    /\ UNCHANGED <<review_enabled, phase, statusSlot, statusFresh, resumeSlot,
                   envVars, cliCount>>

MonitorPlanning ==
    LET o == wait_for_container(alive, statusSlot) IN
    Monitor("plan", "monitor_planning",
            monitor_planning(wf, disk, lastSaved, o[1], o[2], planFile))

MonitorExecution ==
    LET o == wait_for_container(alive, statusSlot) IN
    \E trackerUp \in BOOLEAN :
        Monitor("exec", "monitor_execution",
                monitor_execution(wf, disk, lastSaved, o[1], o[2], logsPr,
                                  review_enabled, trackerUp))

MonitorReview ==
    LET o == wait_for_container(alive, statusSlot) IN
    \E parsed \in BOOLEAN :
        Monitor("review", "monitor_review",
                monitor_review(wf, disk, lastSaved, o[1], o[2], feedbackFile,
                               parsed))

\* an end of the wait that records the response in the orchestrator's record
WaitForResume_unblocking ==
    /\ pc = "wait_resume"
    /\ wait_for_resume(resumeSlot, alive)
    /\ pc' = "monitor"
    /\ wf' = set_unblocked(wf, resumeSlot[1])
    /\ ev' = Ev("wait_for_resume")
    /\ UNCHANGED <<review_enabled, disk, lastSaved, phase, pendingSaves, alive,
                   statusSlot, statusFresh, awaiting, resumeSlot, envVars, cliCount>>

\* DockerManager._wait_for_resume: the wait ends when the resume slot exists.
WaitForResume ==
    /\ pc = "wait_resume"
    /\ wait_for_resume(resumeSlot, alive)
    /\ pc' = "monitor"
    /\ ev' = Ev("wait_for_resume")
    /\ UNCHANGED <<review_enabled, wf, disk, lastSaved, phase, pendingSaves, alive,
                   statusSlot, statusFresh, awaiting, resumeSlot, envVars, cliCount>>

\* The return into _monitor_review's exited branch: line 430 saves.
ReturnSave ==
    /\ pc = "returning"
    /\ pendingSaves > 0
    /\ disk' = wf
    /\ lastSaved' = wf
    /\ pendingSaves' = pendingSaves - 1
    /\ ev' = Ev("return_save")
    /\ UNCHANGED <<review_enabled, wf, pc, phase, alive, statusSlot, statusFresh, awaiting,
                   resumeSlot, envVars, cliCount>>

\* start_workflow returns.
Finish ==
    /\ pc = "returning"
    /\ pendingSaves = 0
    /\ pc' = "done"
    /\ ev' = Ev("finish")
    /\ UNCHANGED <<review_enabled, wf, disk, lastSaved, phase, pendingSaves, alive,
                   statusSlot, statusFresh, awaiting, resumeSlot, envVars, cliCount>>

\* cmd_respond: load, check, respond_to_workflow (write the resume slot,
\* unblock, save).
Respond ==
    /\ cliCount < MaxCli
    /\ cliCount' = cliCount + 1
    /\ \E response \in Responses :
         IF is_blocked(disk)
         THEN /\ resumeSlot' = write_agent_response(response)
              /\ disk' = respond_to_workflow(disk, response)
              /\ ev' = [Ev("respond") EXCEPT !.r = response,
                                             !.snap = <<disk, wf, resumeSlot>>]
         ELSE /\ ev' = [Ev("respond") EXCEPT !.ok = FALSE, !.r = response,
                                             !.snap = <<disk, wf, resumeSlot>>]
              /\ UNCHANGED <<resumeSlot, disk>>
    /\ UNCHANGED <<review_enabled, wf, lastSaved, pc, phase, pendingSaves, alive,
                   statusSlot, statusFresh, awaiting, envVars>>

\* cmd_cancel: load, check, stop and remove the container, CANCELLED, save.
Cancel ==
    /\ cliCount < MaxCli
    /\ cliCount' = cliCount + 1
    /\ IF is_terminal(disk)
       THEN /\ ev' = [Ev("cancel") EXCEPT !.ok = FALSE,
                                          !.snap = <<disk, wf, resumeSlot>>]
            /\ UNCHANGED <<disk, alive>>
       ELSE \E stopped \in BOOLEAN :
            LET wanted == disk.container_id # None
                aborted == wanted /\ stop_workflow_container(stopped).raised
            IN /\ alive' = IF wanted /\ stopped THEN FALSE ELSE alive
               /\ disk' = IF aborted THEN disk ELSE cmd_cancel(disk)
               /\ ev' = [Ev("cancel") EXCEPT
                            !.ok = ~aborted,
                            !.snap = <<disk, wf, resumeSlot>>,
                            !.ext = IF wanted
                                    THEN <<Ext("teardown", disk, disk)>> ELSE <<>>]
    /\ UNCHANGED <<review_enabled, wf, lastSaved, pc, phase, pendingSaves,
                   statusSlot, statusFresh, awaiting, resumeSlot, envVars>>

\* ------------------------------------------------------------ the worker
WorkerRunning == alive /\ phase # "none" /\ pc \notin {"done", "returning"}

\* The worker writes the status slot.
WorkerSignal ==
    /\ WorkerRunning
    /\ \E s \in Signals : statusSlot' = Some(s)
    /\ statusFresh' = TRUE
    /\ UNCHANGED awaiting
    /\ ev' = Ev("worker")
    /\ UNCHANGED <<review_enabled, wf, disk, lastSaved, pc, phase, pendingSaves,
                   alive, resumeSlot, envVars, cliCount>>

\* The worker consumes the resume slot.
WorkerConsumeResume ==
    /\ WorkerRunning
    /\ resumeSlot # None
    /\ resumeSlot' = None
    /\ ev' = Ev("worker")
    /\ UNCHANGED <<review_enabled, wf, disk, lastSaved, pc, phase, pendingSaves,
                   alive, statusSlot, statusFresh, awaiting, envVars, cliCount>>

\* The worker writes plan.md, .review-feedback.json or a pull-request URL
\* to its output.
WorkerArtifact ==
    /\ WorkerRunning
    /\ \/ phase = "plan" /\ planFile' = TRUE /\ UNCHANGED <<feedbackFile, logsPr>>
       \/ phase = "review" /\ feedbackFile' = TRUE /\ UNCHANGED <<planFile, logsPr>>
       \/ phase \in {"exec", "pr"} /\ logsPr' = TRUE /\ UNCHANGED <<planFile, feedbackFile>>
    /\ ev' = Ev("worker")
    /\ UNCHANGED <<review_enabled, wf, disk, lastSaved, pc, phase, pendingSaves,
                   alive, statusSlot, statusFresh, awaiting, resumeSlot, cliCount>>

\* The container's process exits.
ContainerExit ==
    /\ alive
    /\ pc \notin {"done", "returning"}
    /\ alive' = FALSE
    /\ ev' = Ev("worker")
    /\ UNCHANGED <<review_enabled, wf, disk, lastSaved, pc, phase, pendingSaves,
                   statusSlot, statusFresh, awaiting, resumeSlot, envVars, cliCount>>

Next ==
    \/ StartWorkflow
    \/ RunPlanningPhase
    \/ MonitorPlanning
    \/ WaitForResume
    \/ RunExecutionPhase
    \/ MonitorExecution
    \/ RunReviewPhase
    \/ MonitorReview
    \/ RunExecutionWithFeedback
    \/ CreatePrAndComplete
    \/ ReturnSave
    \/ Finish
    \/ WorkerSignal
    \/ WorkerConsumeResume
    \/ WorkerArtifact
    \/ ContainerExit
    \/ Respond
    \/ Cancel

Spec == Init /\ [][Next]_vars

\* =============================================================== progress
\* The orchestrating process is one sequential thread: start_workflow and
\* the handlers it calls run their next statement whenever they can, and
\* the monitors poll on a timer.  The worker, the container and the
\* commands of the human are under no such obligation.
Orchestrator ==
    \/ StartWorkflow
    \/ RunPlanningPhase
    \/ MonitorPlanning
    \/ WaitForResume
    \/ RunExecutionPhase
    \/ MonitorExecution
    \/ RunReviewPhase
    \/ MonitorReview
    \/ RunExecutionWithFeedback
    \/ CreatePrAndComplete
    \/ ReturnSave
    \/ Finish

FairSpec == Init /\ [][Next]_vars /\ WF_vars(Orchestrator)

\* ================================================================ store
\* The durable slot of a record (metadata.json) as a document, and the
\* conversions between a Workflow and that document.

\* JSON values.
JNull == [j |-> "null"]
JStr(s) == [j |-> "string", v |-> s]
JNum(n) == [j |-> "number", v |-> n]
JArr(a) == [j |-> "array", v |-> a]
JObj(o) == [j |-> "object", v |-> o]

\* A Python dict (as opposed to a dataclass instance with the same fields).
PyDict(fields) == [dict |-> fields]

\* models.py AgentType
AgentType == {"claude", "codex"}

\* member.value: the str of an enum member.
EnumValue(member) == [str |-> member]

\* WorkflowState(value): the member with that value.
WorkflowStateOf(value) == CHOOSE m \in WorkflowState : EnumValue(m) = value

\* AgentType(value): the member with that value.
AgentTypeOf(value) == CHOOSE m \in AgentType : EnumValue(m) = value

\* BlockInfo.to_dict (asdict)
BlockInfo_to_dict(b) == PyDict(b)

\* BlockInfo.from_dict (cls(**data))
BlockInfo_from_dict(data) == data.dict

\* Workflow.to_dict: asdict, the enums replaced by their values, block_info
\* by its dict.
to_dict(w) ==
    [w EXCEPT !.state = EnumValue(@),
              !.planner_model = EnumValue(@),
              !.executor_model = EnumValue(@),
              !.block_info = IF @ # None THEN Some(BlockInfo_to_dict(@[1]))
                             ELSE None]

\* from_dict that leaves block_info as the dict it was loaded as.
from_dict_raw_block_info(data) ==
    [data EXCEPT !.state = WorkflowStateOf(@),
                 !.planner_model = AgentTypeOf(@),
                 !.executor_model = AgentTypeOf(@)]

\* Workflow.from_dict: the enums looked up by value, block_info rebuilt
\* when data.get('block_info') is truthy.
from_dict(data) ==
    [data EXCEPT !.state = WorkflowStateOf(@),
                 !.planner_model = AgentTypeOf(@),
                 !.executor_model = AgentTypeOf(@),
                 !.block_info = IF @ # None
                                THEN Some(BlockInfo_from_dict(@[1])) ELSE @]

\* json.dump / json.load of an Optional[str] and an Optional[list[str]].
JOptStr(o) == IF o = None THEN JNull ELSE JStr(o[1])
JOptList(o) ==
    IF o = None THEN JNull ELSE JArr([i \in DOMAIN o[1] |-> JStr(o[1][i])])
PyOptStr(jv) == IF jv = JNull THEN None ELSE Some(jv.v)
PyOptList(jv) ==
    IF jv = JNull THEN None ELSE Some([i \in DOMAIN jv.v |-> jv.v[i].v])

\* The fields of a Workflow that hold an enum member.
EnumFields == {"state", "planner_model", "executor_model"}

\* The fields of a Workflow that are str.
StrFields == {"id", "created_at", "updated_at"}

\* The fields of a Workflow that are Optional[str].
OptStrFields ==
    {"human_response", "error_message", "plan_file_path", "pr_url",
     "container_id", "review_feedback"}

\* json.dump(workflow.to_dict(), f): the document written.
json_dump(d) ==
    [f \in DOMAIN d |->
        CASE f \in EnumFields -> JStr(d[f].str)
          [] f = "block_info" ->
               IF d[f] = None THEN JNull
               ELSE LET b == d[f][1].dict IN
                    JObj([reason     |-> JStr(b.reason),
                          question   |-> JOptStr(b.question),
                          options    |-> JOptList(b.options),
                          blocked_at |-> JStr(b.blocked_at)])
          [] f \in OptStrFields -> JOptStr(d[f])
          [] f \in StrFields -> JStr(d[f])
          [] OTHER -> JNum(d[f])]

\* json.load(f): the dict read from a complete document.
json_load(doc) ==
    [f \in DOMAIN doc |->
        CASE f \in EnumFields -> EnumValue(doc[f].v)
          [] f = "block_info" ->
               IF doc[f] = JNull THEN None
               ELSE LET o == doc[f].v IN
                    Some(PyDict([reason     |-> o.reason.v,
                                 question   |-> PyOptStr(o.question),
                                 options    |-> PyOptList(o.options),
                                 blocked_at |-> o.blocked_at.v]))
          [] f \in OptStrFields -> PyOptStr(doc[f])
          [] f \in StrFields -> doc[f].v
          [] OTHER -> doc[f].v]

\* The content of metadata.json: a complete document, or what is there
\* between open(metadata_file, 'w') and the close of the file.
FileComplete(doc) == [complete |-> TRUE, doc |-> doc]
FileTruncated == [complete |-> FALSE, doc |-> <<>>]
FilePartial(doc) == [complete |-> FALSE, doc |-> doc]

\* WorkflowManager._save_workflow: the file once the with block has closed it.
save_workflow(w) == FileComplete(json_dump(to_dict(w)))

\* What json.load raises on an empty or cut-off document.
JSONDecodeError == [error |-> "JSONDecodeError"]

\* WorkflowManager.load_workflow on an existing metadata.json.
load_workflow(file) ==
    IF file.complete THEN from_dict(json_load(file.doc)) ELSE JSONDecodeError

\* The BlockInfo values stored: blocked_at is the timestamp the dataclass
\* adds when it is constructed.
StoreBlockInfos ==
    {None,
     Some(BlockInfo("Planner needs input", Some("Which auth library?"),
                    Some(<<"A", "B">>)) @@ [blocked_at |-> "2024-01-01T00:00:00"]),
     Some(BlockInfo("need a decision", None, None)
              @@ [blocked_at |-> "2024-01-02T00:00:00"])}

\* A record with the agent models it was created with.
StoredWorkflow(planner, executor) ==
    NewWorkflow(MaxReviewBound)
        @@ [planner_model |-> planner, executor_model |-> executor]

\* The records saved: every state, every optional field absent and present
\* (error_message also empty), block_info absent and present.
StoreRecords ==
    {[StoredWorkflow(a, "claude")
         EXCEPT !.state = s, !.block_info = b, !.human_response = h,
                !.error_message = e, !.plan_file_path = p, !.pr_url = u,
                !.container_id = c, !.review_feedback = f,
                !.review_iteration = i] :
        s \in WorkflowState, b \in StoreBlockInfos,
        h \in {None, Some("A")}, e \in {None, Some(""), Some("boom")},
        p \in {None, Some("plan.md")}, u \in {None, Some(PrUrl)},
        c \in {None, Some(ContainerId)}, f \in {None, Some("feedback")},
        i \in {0, 1}, a \in AgentType}

\* A step of the store: what ran and what a load returned.
StoreEv(kind, loaded) == [kind |-> kind, snap |-> loaded]

\* metadata.json holds the record as created (lastSaved); a writer is about
\* to save the record wf over it, and readers load the slot at any moment.
StoreInit ==
    /\ review_enabled = FALSE
    /\ wf \in StoreRecords
    /\ lastSaved = StoredWorkflow("codex", "claude")
    /\ disk = save_workflow(lastSaved)
    /\ pc = "store_idle"
    /\ phase = "none"
    /\ pendingSaves = 0
    /\ alive = FALSE
    /\ statusSlot = None
    /\ statusFresh = FALSE
    /\ awaiting = FALSE
    /\ resumeSlot = None
    /\ planFile = FALSE
    /\ feedbackFile = FALSE
    /\ logsPr = FALSE
    /\ cliCount = 0
    /\ ev = StoreEv("create_workflow", <<>>)

storeFixed ==
    <<review_enabled, wf, lastSaved, phase, pendingSaves, alive, statusSlot,
      statusFresh, awaiting, resumeSlot, planFile, feedbackFile, logsPr, cliCount>>

\* _save_workflow, open(metadata_file, 'w'): the file is truncated.
SaveOpen ==
    /\ pc = "store_idle"
    /\ disk' = FileTruncated
    /\ pc' = "store_open"
    /\ ev' = StoreEv("save_open", <<>>)
    /\ UNCHANGED storeFixed

\* _save_workflow, json.dump: part of the document reaches the file before
\* the rest (the buffer is flushed when it is full).
SaveFlush ==
    /\ pc = "store_open"
    /\ disk' = FilePartial(json_dump(to_dict(wf)))
    /\ pc' = "store_writing"
    /\ ev' = StoreEv("save_flush", <<>>)
    /\ UNCHANGED storeFixed

\* _save_workflow, the end of the with block: the whole document is there.
SaveClose ==
    /\ pc \in {"store_open", "store_writing"}
    /\ disk' = save_workflow(wf)
    /\ pc' = "store_closed"
    /\ ev' = StoreEv("save_close", <<>>)
    /\ UNCHANGED storeFixed

\* A reader (status, list, respond, cancel) loads the record.
LoadWorkflow ==
    /\ ev' = StoreEv("load", <<load_workflow(disk)>>)
    /\ UNCHANGED <<disk, pc>>
    /\ UNCHANGED storeFixed

StoreNext ==
    \/ SaveOpen
    \/ SaveFlush
    \/ SaveClose
    \/ LoadWorkflow

StoreSpec == StoreInit /\ [][StoreNext]_vars

\* ================================================================ listing
\* The workflows directory with one sub-directory per workflow, and the
\* readers load_workflow / list_workflows over it.

\* Moments at which a record was last updated: whole seconds and
\* microseconds.
Times == {[s |-> 1, us |-> 0], [s |-> 1, us |-> 5], [s |-> 2, us |-> 0]}

\* datetime.utcnow().isoformat(): the fixed-width seconds part, followed by
\* the microseconds part unless the microseconds are zero.
isoformat(t) == IF t.us = 0 THEN <<t.s>> ELSE <<t.s, t.us>>

\* a < b on str: the first differing position decides, a proper prefix is
\* smaller.
RECURSIVE StrLess(_, _)
StrLess(a, b) ==
    IF b = <<>> THEN FALSE
    ELSE IF a = <<>> THEN TRUE
    ELSE IF Head(a) # Head(b) THEN Head(a) < Head(b)
    ELSE StrLess(Tail(a), Tail(b))

\* The names under workflows_dir and a name that is not there.
DirNames == {"wf-a", "wf-b", "wf-c"}
AbsentName == "wf-none"

\* An entry of workflows_dir: a plain file, a directory without
\* metadata.json, or a directory with the metadata.json given.
NotADirectory == [is_dir |-> FALSE, metadata |-> None]
EmptyDirectory == [is_dir |-> TRUE, metadata |-> None]
WorkflowDirectory(file) == [is_dir |-> TRUE, metadata |-> Some(file)]

\* The record of the workflow named id, in the state and with the
\* updated_at given.
ListedWorkflow(id, state, t) ==
    [StoredWorkflow("codex", "claude") EXCEPT !.state = state]
        @@ [id |-> id, updated_at |-> isoformat(t)]

\* The states the listed records are in.
ListedStates == {"planning", "failed"}

\* WorkflowManager.load_workflow: None when metadata.json does not exist,
\* otherwise what loading the file gives.
load_workflow_by_id(dir, workflow_id) ==
    IF workflow_id \notin DOMAIN dir THEN None
    ELSE IF dir[workflow_id].metadata = None THEN None
    ELSE Some(load_workflow(dir[workflow_id].metadata[1]))

\* list.sort(key=lambda w: w.updated_at, reverse=True): stable, the larger
\* key first.
RECURSIVE sort_updated_at_reverse(_)
sort_updated_at_reverse(ws) ==
    IF ws = <<>> THEN <<>>
    ELSE LET rest == sort_updated_at_reverse(Tail(ws))
             w == Head(ws)
             before == SelectSeq(rest,
                           LAMBDA x : StrLess(w.updated_at, x.updated_at))
             after == SelectSeq(rest,
                           LAMBDA x : ~StrLess(w.updated_at, x.updated_at))
         IN before \o <<w>> \o after

\* The loop of list_workflows over the names in iterdir order: raised when
\* a load raises, else the workflows appended.
RECURSIVE list_workflows_loop(_, _, _)
list_workflows_loop(dir, names, state_filter) ==
    IF names = <<>> THEN [raised |-> FALSE, workflows |-> <<>>]
    ELSE LET name == Head(names)
             loaded == load_workflow_by_id(dir, name)
             rest == list_workflows_loop(dir, Tail(names), state_filter)
         IN IF ~dir[name].is_dir \/ loaded = None THEN rest
            ELSE IF loaded[1] = JSONDecodeError
                 THEN [raised |-> TRUE, workflows |-> <<>>]
            ELSE IF rest.raised THEN rest
            ELSE IF state_filter = None \/ loaded[1].state = state_filter[1]
                 THEN [rest EXCEPT !.workflows = <<loaded[1]>> \o @]
            ELSE rest

\* WorkflowManager.list_workflows.
list_workflows(dir, names, state_filter) ==
    LET looped == list_workflows_loop(dir, names, state_filter)
    IN IF looped.raised THEN looped
       ELSE [looped EXCEPT !.workflows = sort_updated_at_reverse(@)]

\* The orders in which iterdir may yield the names.
IterdirOrders ==
    {o \in [1..Cardinality(DirNames) -> DirNames] :
        \A i, j \in DOMAIN o : i # j => o[i] # o[j]}

\* A step of a reader or writer of the directory.
ListEv(kind, arg, result) == [kind |-> kind, arg |-> arg, snap |-> result]

\* The entries the directory starts with.
ListEntries(id) ==
    {NotADirectory, EmptyDirectory}
        \cup {WorkflowDirectory(save_workflow(ListedWorkflow(id, s, t))) :
                 s \in ListedStates, t \in Times}

\* disk is workflows_dir; a writer is about to save the record wf.
ListInit ==
    /\ review_enabled = FALSE
    /\ disk \in {d \in [DirNames -> UNION {ListEntries(id) : id \in DirNames}] :
                    \A id \in DirNames : d[id] \in ListEntries(id)}
    /\ wf \in {ListedWorkflow("wf-a", s, [s |-> 2, us |-> 5]) : s \in ListedStates}
    /\ lastSaved = wf
    /\ pc = "store_idle"
    /\ phase = "none"
    /\ pendingSaves = 0
    /\ alive = FALSE
    /\ statusSlot = None
    /\ statusFresh = FALSE
    /\ awaiting = FALSE
    /\ resumeSlot = None
    /\ planFile = FALSE
    /\ feedbackFile = FALSE
    /\ logsPr = FALSE
    /\ cliCount = 0
    /\ ev = ListEv("init", <<>>, <<>>)

\* _save_workflow, open(metadata_file, 'w'), of a workflow whose directory
\* exists.
ListSaveOpen ==
    /\ pc = "store_idle"
    /\ disk[wf.id].is_dir
    /\ disk' = [disk EXCEPT ![wf.id] = WorkflowDirectory(FileTruncated)]
    /\ pc' = "store_open"
    /\ ev' = ListEv("save_open", wf.id, <<>>)
    /\ UNCHANGED storeFixed

\* _save_workflow, the end of the with block.
ListSaveClose ==
    /\ pc = "store_open"
    /\ disk' = [disk EXCEPT ![wf.id] = WorkflowDirectory(save_workflow(wf))]
    /\ pc' = "store_closed"
    /\ ev' = ListEv("save_close", wf.id, <<>>)
    /\ UNCHANGED storeFixed

\* A reader calls load_workflow(workflow_id).
ListLoad ==
    \E workflow_id \in DirNames \cup {AbsentName} :
        /\ ev' = ListEv("load", workflow_id,
                        load_workflow_by_id(disk, workflow_id))
        /\ UNCHANGED <<disk, pc>>
        /\ UNCHANGED storeFixed

\* A reader calls list_workflows(state_filter).
ListWorkflows ==
    \E names \in IterdirOrders,
       state_filter \in {None} \cup {Some(s) : s \in ListedStates \cup {"completed"}} :
        /\ ev' = ListEv("list", state_filter,
                        list_workflows(disk, names, state_filter))
        /\ UNCHANGED <<disk, pc>>
        /\ UNCHANGED storeFixed

ListNext ==
    \/ ListSaveOpen
    \/ ListSaveClose
    \/ ListLoad
    \/ ListWorkflows

ListSpec == ListInit /\ [][ListNext]_vars

\* ================================================================ signals
\* The three monitors applied to one tick, for every signal a worker may
\* leave in the status slot, error signals with an empty and with no
\* message included.

\* The error documents a worker may write into .workflow-status.json.
ErrorSignals ==
    {AgentStatus("error", Some("boom"), None, None, None),
     AgentStatus("error", Some(""), None, None, None),
     AgentStatus("error", None, None, None, None)}

\* The record while the phase given is monitored.
MonitoredWorkflow(p, maxIter) ==
    [NewWorkflow(maxIter) EXCEPT
        !.state = CASE p = "plan" -> "planning"
                    [] p = "exec" -> "executing"
                    [] OTHER -> "reviewing",
        !.container_id = Some(ContainerId),
        !.plan_file_path = IF p = "plan" THEN None ELSE Some("plan.md"),
        !.review_iteration = IF p = "review" THEN 1 ELSE 0]

\* A monitor is about to take a tick of its phase; the worker has left a
\* signal in the status slot and is running or has exited.
SignalInit ==
    /\ review_enabled \in ReviewEnabledChoices
    /\ phase \in {"plan", "exec", "review"}
    /\ phase = "review" => review_enabled
    /\ \E m \in MaxReviewChoices : wf = MonitoredWorkflow(phase, m)
    /\ disk = wf
    /\ lastSaved = wf
    /\ pc = "monitor"
    /\ pendingSaves = 0
    /\ alive \in BOOLEAN
    /\ statusSlot \in {Some(s) : s \in Signals \cup ErrorSignals}
    /\ statusFresh = TRUE
    /\ awaiting = TRUE
    /\ resumeSlot = None
    /\ planFile \in BOOLEAN
    /\ feedbackFile \in BOOLEAN
    /\ logsPr \in BOOLEAN
    /\ cliCount = 0
    /\ ev = Ev("worker")

SignalNext ==
    \/ MonitorPlanning
    \/ MonitorExecution
    \/ MonitorReview

SignalSpec == SignalInit /\ [][SignalNext]_vars

\* ============================================================= updated_at
\* The record's updated_at along the handlers that change the record and
\* save it, with the clock read by update_state.

\* The moment a is not before the moment b.
NotBefore(a, b) == a.s > b.s \/ (a.s = b.s /\ a.us >= b.us)

\* create_workflow: the record constructed at the moment now.
CreatedWorkflow(maxIter, now) ==
    NewWorkflow(maxIter) @@ [updated_at |-> isoformat(now)]

\* self.updated_at = datetime.utcnow().isoformat() of update_state, for a
\* handler that calls update_state at the moment now.
Stamped(w, now) == [w EXCEPT !.updated_at = isoformat(now)]

\* A step of the orchestrating process or of respond, and the moment it ran.
StampEv(kind, at) == [kind |-> kind, at |-> at]

stampFixed ==
    <<review_enabled, phase, pendingSaves, alive, statusSlot, statusFresh,
      awaiting, resumeSlot, planFile, feedbackFile, logsPr, cliCount>>

\* The record has just been created and saved.
StampInit ==
    /\ review_enabled \in ReviewEnabledChoices
    /\ \E m \in MaxReviewChoices, now \in Times :
          /\ wf = CreatedWorkflow(m, now)
          /\ ev = StampEv("create_workflow", now)
    /\ disk = wf
    /\ lastSaved = wf
    /\ pc = "created"
    /\ phase = "none"
    /\ pendingSaves = 0
    /\ alive = FALSE
    /\ statusSlot = None
    /\ statusFresh = FALSE
    /\ awaiting = FALSE
    /\ resumeSlot = None
    /\ planFile = FALSE
    /\ feedbackFile = FALSE
    /\ logsPr = FALSE
    /\ cliCount = 0

\* The handler leaves the record w, saved, at a moment not before the
\* previous step's.  A handler runs within one reading of the clock; the
\* clock may advance between handlers.
StampSave(kind, w, next, now) ==
    /\ NotBefore(now, ev.at)
    /\ wf' = w
    /\ disk' = w
    /\ lastSaved' = w
    /\ pc' = next
    /\ ev' = StampEv(kind, now)
    /\ UNCHANGED stampFixed

\* start_workflow, lines 104-106: the container identity is assigned and
\* the record saved; update_state is not called.
StampAssignIdentity ==
    /\ pc = "created"
    /\ \E now \in Times :
          StampSave("assign_identity",
                    [wf EXCEPT !.container_id = Some(ContainerId)],
                    "identified", now)

\* start_workflow, lines 111-112.
StampBeginPlanning ==
    /\ pc = "identified"
    /\ \E now \in Times :
          StampSave("begin_planning",
                    Stamped(update_state(wf, "planning", None), now),
                    "planning", now)

\* The blocked branch of _monitor_planning and of _monitor_execution.
StampBlocked ==
    /\ pc \in {"planning", "executing"}
    /\ \E now \in Times, s \in {x \in Signals : x.status = "blocked"} :
          LET r == IF pc = "planning"
                   THEN monitor_planning(wf, disk, lastSaved, "blocked", Some(s), FALSE)
                   ELSE monitor_execution(wf, disk, lastSaved, "blocked", Some(s),
                                          FALSE, review_enabled, TRUE)
          IN StampSave("set_blocked", Stamped(r.wf, now), "blocked", now)

\* respond_to_workflow on a blocked record.
StampRespond ==
    /\ pc = "blocked"
    /\ is_blocked(wf)
    /\ \E now \in Times, response \in Responses :
          LET w1 == respond_to_workflow(wf, response) IN
          StampSave("set_unblocked", Stamped(w1, now),
                    IF w1.state = "planning" THEN "planning" ELSE "executing", now)

\* _run_execution_phase.
StampBeginExecution ==
    /\ pc = "planning"
    /\ \E now \in Times :
          StampSave("begin_execution",
                    Stamped(run_execution_phase(wf, disk, lastSaved, TRUE).wf, now),
                    "executing", now)

\* _run_review_phase: REVIEWING and review_iteration += 1.
StampBeginReview ==
    /\ pc = "executing"
    /\ review_enabled
    /\ \E now \in Times :
          StampSave("review_iteration",
                    Stamped(run_review_phase(wf, disk, lastSaved, TRUE, TRUE).wf, now),
                    "reviewing", now)

\* _monitor_execution, complete branch without review: COMPLETED and the
\* pull-request URL of the signal.
StampRecordResult ==
    /\ pc = "executing"
    /\ ~review_enabled
    /\ \E now \in Times :
          LET s == AgentStatus("complete", Some("done " \o PrUrl), None, None, None)
              r == monitor_execution(wf, disk, lastSaved, "complete", Some(s),
                                     FALSE, FALSE, TRUE)
          IN StampSave("pr_url", Stamped(r.wf, now), "completed", now)

StampNext ==
    \/ StampAssignIdentity
    \/ StampBeginPlanning
    \/ StampBlocked
    \/ StampRespond
    \/ StampBeginExecution
    \/ StampBeginReview
    \/ StampRecordResult

StampSpec == StampInit /\ [][StampNext]_vars

\* ================================================================ claims
\* The terminal states as the specification lists them (section 4.1).
TerminalStates == {"completed", "failed", "cancelled"}

\* The step just taken launched an agent.
Launched == \E i \in DOMAIN ev.ext : ev.ext[i].act = "launch"

\* The record a respond / cancel command loaded.
Loaded == ev.snap[1]

\* C1: in every reachable record, persisted or held in memory by the
\* orchestrator between its actions, block_info is non-null if and only if
\* the state is PLANNING_BLOCKED, EXECUTION_BLOCKED or REVIEW_BLOCKED.
C1_BlockInfoIffBlocked ==
    /\ (wf.block_info # None) <=> (wf.state \in BlockedSubStates)
    /\ (disk.block_info # None) <=> (disk.state \in BlockedSubStates)

MonitorKinds == {"monitor_planning", "monitor_execution", "monitor_review"}

\* C3: once cancel has persisted CANCELLED, a step of the monitor loop that
\* was already running leaves the persisted state CANCELLED (its save is a
\* no-op).
C3_CancelledStays ==
    (ev.kind \in MonitorKinds /\ ev.from = "cancelled")
        => (disk.state = "cancelled")

\* C4: a response r to a workflow in PLANNING_BLOCKED moves it to PLANNING,
\* in EXECUTION_BLOCKED to EXECUTING; the persisted record then has
\* block_info cleared and the last human response equal to r.
C4_RespondResumes ==
    (ev.kind = "respond" /\ ev.from \in {"planning_blocked", "execution_blocked"})
        => /\ ev.ok
           /\ disk.state = (IF ev.from = "planning_blocked"
                            THEN "planning" ELSE "executing")
           /\ disk.block_info = None
           /\ disk.human_response = Some(ev.r)

\* C4 witness: the response "B" to a workflow blocked in its execute phase.
C4_Witness ==
    /\ ev.kind = "respond"
    /\ ev.from = "execution_blocked"
    /\ ev.r = "B"
    /\ Loaded.block_info # None
    /\ disk.state = "executing"

\* C5: a response to a workflow that is in no blocked sub-state is rejected
\* and changes nothing: the in-memory record, the persisted record and the
\* resume slot are as before.
C5_RespondRejectedNoEffect ==
    (ev.kind = "respond" /\ ev.from \notin BlockedSubStates)
        => /\ ~ev.ok
           /\ <<disk, wf, resumeSlot>> = ev.snap

\* C5 witness: a response to a workflow that is executing was rejected.
C5_Witness ==
    /\ ev.kind = "respond"
    /\ ev.from = "executing"
    /\ ~ev.ok

\* C6: respond is accepted exactly when the workflow is in one of the three
\* blocked sub-states (REVIEW_BLOCKED included), and rejected otherwise.
C6_RespondAcceptedIffBlocked ==
    (ev.kind = "respond") => (ev.ok <=> ev.from \in BlockedSubStates)

C8_Options ==
    <<"Approve and create PR anyway", "Cancel workflow", "Manual intervention needed">>

\* C8: with a bound N >= 1 the first N-1 rejected reviews lead to
\* NEEDS_REWORK and the N-th to REVIEW_BLOCKED, and a workflow escalated
\* because the bound was reached offers exactly the three options.
C8_EscalationAtBound ==
    ev.rejected
        => /\ wf.state = (IF wf.review_iteration < wf.max_review_iterations
                          THEN "needs_rework" ELSE "review_blocked")
           /\ wf.state = "review_blocked"
                => /\ wf.block_info # None
                   /\ wf.block_info[1].options = Some(C8_Options)

\* C9: every agent launch, tracker update and container stop/remove is
\* preceded by a save of the record as it is at that moment.
C9_SavedBeforeExternal == \A i \in DOMAIN ev.ext : ev.ext[i].saved

\* C10: at the start of a phase both slots are cleared, and a complete,
\* error or blocked outcome reported for a phase comes from a status
\* written during that phase.
C10_NoStaleSignal ==
    /\ Launched => (statusSlot = None /\ resumeSlot = None)
    /\ (ev.kind \in MonitorKinds
        /\ ev.outcome \in {"blocked", "complete", "error"}) => statusFresh

\* The edges of the documented state machine (FETCHING_INPUT is
\* fetching_ticket, CREATING_RESULT is creating_pr).
C11_Edges ==
    {<<"pending", "fetching_ticket">>, <<"fetching_ticket", "planning">>,
     <<"planning", "planning_blocked">>, <<"planning_blocked", "planning">>,
     <<"planning", "planned">>, <<"planned", "executing">>,
     <<"executing", "execution_blocked">>, <<"execution_blocked", "executing">>,
     <<"executing", "reviewing">>,
     <<"reviewing", "review_blocked">>, <<"review_blocked", "reviewing">>,
     <<"reviewing", "needs_rework">>, <<"needs_rework", "executing">>,
     <<"executing", "creating_pr">>, <<"reviewing", "creating_pr">>,
     <<"creating_pr", "completed">>}
    \cup ((WorkflowState \ TerminalStates) \X {"failed", "cancelled"})

\* C11: every change of the workflow's state, in the orchestrator's record
\* and in the persisted record, follows an edge of the documented state
\* machine.
C11_OnlyDocumentedEdges ==
    /\ wf.state # ev.memFrom => <<ev.memFrom, wf.state>> \in C11_Edges
    /\ disk.state # ev.from => <<ev.from, disk.state>> \in C11_Edges

\* The active phase a blocked sub-state belongs to.
C12_PhaseOf(blocked) ==
    CASE blocked = "planning_blocked" -> "planning"
      [] blocked = "execution_blocked" -> "executing"
      [] blocked = "review_blocked" -> "reviewing"

\* A change of state from a to b respects the blocked sub-states.
C12_Respects(a, b) ==
    /\ (b \in BlockedSubStates /\ a # b) => a = C12_PhaseOf(b)
    /\ (a \in BlockedSubStates /\ a # b /\ b \notin TerminalStates)
          => b = C12_PhaseOf(a)
    /\ a \in BlockedSubStates
          => b \notin {"planned", "reviewing", "needs_rework", "completed"}

\* C12: a blocked sub-state is entered only from its own active phase, and
\* the only non-terminal state reached directly from it is that phase; no
\* step goes from a blocked sub-state directly to PLANNED, REVIEWING,
\* NEEDS_REWORK or COMPLETED.
C12_BlockedOnlyFromAndToPhase ==
    /\ C12_Respects(ev.memFrom, wf.state)
    /\ C12_Respects(ev.from, disk.state)

\* C13: COMPLETED, FAILED and CANCELLED are absorbing: no step changes the
\* state of a record that is terminal, in the orchestrator's memory or in
\* the store.
C13_TerminalAbsorbing ==
    /\ ev.memFrom \in TerminalStates => wf.state = ev.memFrom
    /\ ev.from \in TerminalStates => disk.state = ev.from

\* C14: no exception escapes the phase run it is raised in, and whenever a
\* step of a phase run raises, the record becomes FAILED with an error
\* message and is persisted before the call returns.
C14_FailureCaughtAndPersisted ==
    ev.exc # ""
        => /\ ev.exc = "caught"
           /\ wf.state = "failed"
           /\ Truthy(wf.error_message)
           /\ disk = wf

C16_LoadSeesWholeRecord ==
    ev.kind = "load" => (ev.snap = <<lastSaved>> \/ ev.snap = <<wf>>)

\* The agent invocations issued by the step just taken.
C17_Launches == {i \in DOMAIN ev.ext : ev.ext[i].act = "launch"}

\* C17: when the plan monitor reports complete with an output file, the
\* record is persisted as PLANNED with plan_file_path set to that file and
\* the orchestrator's next step is the execute phase run; that run starts
\* from PLANNED and, its launch succeeding, leaves the record persisted as
\* EXECUTING with exactly one agent invocation, for the execute phase.
C17_PlanCompleteThenExecute ==
    /\ (ev.kind = "monitor_planning" /\ ev.outcome = "complete"
        /\ statusSlot[1].output_file # None)
          => /\ wf.state = "planned"
             /\ wf.plan_file_path = statusSlot[1].output_file
             /\ disk = wf
             /\ pc = "run_execution"
    /\ pc = "run_execution" => wf.state = "planned"
    /\ ev.kind = "run_execution"
          => /\ ev.memFrom = "planned"
             /\ wf.state \in {"executing", "failed"}
             /\ ev.exc = ""
                  => /\ wf.state = "executing"
                     /\ disk = wf
                     /\ Cardinality(C17_Launches) = 1
                     /\ phase = "exec"
                     /\ pc = "monitor"

\* C17 witness: the planner signalled complete with plan.md, and the execute
\* phase run has just launched the executor.
C17_Witness ==
    /\ ev.kind = "run_execution"
    /\ ev.exc = ""
    /\ wf.state = "executing"
    /\ wf.plan_file_path = Some("plan.md")
    /\ statusSlot # None
    /\ statusSlot[1].output_file = Some("plan.md")
    /\ Launched

\* The blocked sub-state and the default reason of the phase a monitor
\* belongs to.
C18_BlockedState(kind) ==
    CASE kind = "monitor_planning" -> "planning_blocked"
      [] kind = "monitor_execution" -> "execution_blocked"
      [] kind = "monitor_review" -> "review_blocked"
C18_DefaultReason(kind) ==
    CASE kind = "monitor_planning" -> "Planner needs input"
      [] kind = "monitor_execution" -> "Executor needs input"
      [] kind = "monitor_review" -> "Reviewer needs input"

\* A monitor has just handled a blocked signal (the one in the status slot).
C18_BlockedHandled == ev.kind \in MonitorKinds /\ ev.outcome = "blocked"

\* C18 (as stated): a blocked signal moves the workflow to the phase's own
\* blocked sub-state and records, persisted, a BlockInfo whose question and
\* options are the signal's and whose reason is the signal's message.
C18_BlockedRecordsSignal ==
    C18_BlockedHandled
        => /\ wf.state = C18_BlockedState(ev.kind)
           /\ wf.block_info # None
           /\ wf.block_info[1].question = statusSlot[1].question
           /\ wf.block_info[1].options = statusSlot[1].options
           /\ Some(wf.block_info[1].reason) = statusSlot[1].message
           /\ disk = wf

\* C18 (amended): as above, but the reason is the signal's message only when
\* the signal carries a non-empty one, and the phase's default reason
\* otherwise.
C18_BlockedRecordsSignalOrDefault ==
    C18_BlockedHandled
        => /\ wf.state = C18_BlockedState(ev.kind)
           /\ wf.block_info # None
           /\ wf.block_info[1].question = statusSlot[1].question
           /\ wf.block_info[1].options = statusSlot[1].options
           /\ wf.block_info[1].reason =
                 (IF Truthy(statusSlot[1].message) THEN statusSlot[1].message[1]
                  ELSE C18_DefaultReason(ev.kind))
           /\ wf.human_response = None
           /\ disk = wf

\* C18 witness: the executor signalled blocked with the question "Which auth
\* library?" and the options A, B, and the execute monitor recorded it.
C18_Witness ==
    /\ C18_BlockedHandled
    /\ ev.kind = "monitor_execution"
    /\ wf.state = "execution_blocked"
    /\ wf.block_info[1].question = Some("Which auth library?")
    /\ wf.block_info[1].options = Some(<<"A", "B">>)
    /\ disk = wf

\* The text msg contains the text part (after one of the prefixes the
\* orchestrator puts in front of captured output).
C19_Contains(msg, part) ==
    \E prefix \in {"", "Executor failed. Logs:\n"} : msg = prefix \o part

\* C19: when the execute phase's container has exited without a signal and
\* its output holds no pull-request URL, the record becomes FAILED with a
\* non-empty error message that contains the output, and is persisted.
C19_SilentExitFails ==
    (ev.kind = "monitor_execution" /\ ev.outcome = "exited" /\ ~logsPr)
        => /\ wf.state = "failed"
           /\ Truthy(wf.error_message)
           /\ C19_Contains(wf.error_message[1], get_container_logs(logsPr))
           /\ disk = wf

\* C19 witness: the executor's container exited with no pull-request URL in
\* its output, and the execute monitor has handled the exit.
C19_Witness ==
    /\ ev.kind = "monitor_execution"
    /\ ev.outcome = "exited"
    /\ ~logsPr
    /\ ev.memFrom = "executing"
    /\ wf.state = "failed"

\* The step just taken stopped and removed the container.
C20_TornDown == \E i \in DOMAIN ev.ext : ev.ext[i].act = "teardown"

C21_PhaseRuns ==
    {"run_planning", "run_execution", "run_review", "run_exec_feedback",
     "create_pr"}

\* C21: phases run strictly one after another: an agent is launched only by
\* a phase run, and only when no previously launched agent's phase is still
\* waiting for a terminal outcome (complete, error, exited) of its monitor;
\* while a phase is monitored or blocked the orchestrator is at no launch.
C21_PhasesSequential ==
    /\ Launched => (ev.kind \in C21_PhaseRuns /\ ~ev.awaitingFrom)
    /\ pc \in {"monitor", "wait_resume"} => awaiting
    /\ (ev.kind \in MonitorKinds /\ ~PhaseEnded(ev.outcome))
          => pc \in {"monitor", "wait_resume"}
    /\ pc \in {"run_execution", "run_review", "run_exec_feedback", "create_pr"}
          => ~awaiting

\* C21 witness: the reviewer was launched after the execute monitor reported
\* complete, and nothing was awaited at that launch.
C21_Witness ==
    /\ ev.kind = "run_review"
    /\ Launched
    /\ ~ev.awaitingFrom
    /\ awaiting
    /\ phase = "review"

\* The tracker update attempted by the step just taken failed.
C22_TrackerFailed == \E i \in DOMAIN ev.ext : ev.ext[i].act = "tracker_failed"

\* C22: a workflow that reached COMPLETED stays COMPLETED when the tracker
\* update that follows fails: the step raises nothing, and the record, in
\* memory and persisted, is COMPLETED with its pr_url.
C22_TrackerFailureKeepsCompleted ==
    C22_TrackerFailed
        => /\ ev.exc = ""
           /\ wf.state = "completed"
           /\ wf.pr_url = Some(PrUrl)
           /\ wf.error_message = None
           /\ disk = wf

\* C22 witness: review disabled, the executor signalled complete with a
\* pull-request URL, and the tracker update failed.
C22_Witness ==
    /\ C22_TrackerFailed
    /\ ev.kind = "monitor_execution"
    /\ ev.outcome = "complete"
    /\ wf.state = "completed"
    /\ disk.pr_url = Some(PrUrl)

C24_CancelDespiteStopFailure ==
    (ev.kind = "cancel" /\ Loaded.state \notin TerminalStates)
        => /\ ev.ok
           /\ disk = update_state(Loaded, "cancelled", None)
           /\ disk.error_message = Loaded.error_message

\* C24 witness: a started workflow was cancelled, the stop of its container
\* failed and the container is still running; the record is CANCELLED.
C24_Witness ==
    /\ ev.kind = "cancel"
    /\ ev.ok
    /\ Loaded.container_id = Some(ContainerId)
    /\ C20_TornDown
    /\ alive
    /\ disk.state = "cancelled"

\* ---------------------------------------------------------------- C25
\* The records the directory holds whole: those whose metadata.json is the
\* complete document of the record.
C25_Records ==
    {ListedWorkflow(id, s, t) : id \in DirNames, s \in ListedStates, t \in Times}
        \cup {wf}

C25_Stored ==
    {r \in C25_Records : disk[r.id] = WorkflowDirectory(save_workflow(r))}

\* The moment an updated_at string stands for, and "t is not before u".
C25_TimeOf(str) ==
    CHOOSE t \in Times \cup {[s |-> 2, us |-> 5]} : isoformat(t) = str

C25_NotBefore(t, u) == t.s > u.s \/ (t.s = u.s /\ t.us >= u.us)

C25_Matching(state_filter) ==
    {r \in C25_Stored : state_filter = None \/ r.state = state_filter[1]}

C25_ListIsMatchingSorted(state_filter, ws) ==
    /\ {ws[i] : i \in DOMAIN ws} = C25_Matching(state_filter)
    /\ Len(ws) = Cardinality(C25_Matching(state_filter))
    /\ \A i, j \in DOMAIN ws :
          i < j => C25_NotBefore(C25_TimeOf(ws[i].updated_at),
                                 C25_TimeOf(ws[j].updated_at))

\* C25: list returns exactly the stored records whose state equals the
\* filter (all of them without a filter), the most recently updated first;
\* load of an identity without a record file returns not-found.
C25_ListReturnsStoredSorted ==
    /\ ev.kind = "list"
          => /\ ~ev.snap.raised
             /\ C25_ListIsMatchingSorted(ev.arg, ev.snap.workflows)
    /\ (ev.kind = "load"
          /\ (ev.arg \notin DOMAIN disk \/ disk[ev.arg].metadata = None))
          => ev.snap = None

\* ---------------------------------------------------------------- C26
\* C26: with review enabled, when the execute monitor reports complete the
\* review phase begins: the record is neither COMPLETED nor FAILED and the
\* next step is the review phase run, which leaves the record persisted as
\* REVIEWING with review_iteration one higher and issues exactly one
\* reviewer invocation.
C26_ReviewBegins ==
    /\ (ev.kind = "monitor_execution" /\ ev.outcome = "complete" /\ review_enabled)
          => /\ pc = "run_review"
             /\ wf.state \notin {"completed", "failed"}
    /\ ev.kind = "run_review"
          => /\ wf.state = "reviewing"
             /\ wf.review_iteration = ev.iterFrom + 1
             /\ disk = wf
             /\ Cardinality(C17_Launches) = 1
             /\ phase = "review"

\* ---------------------------------------------------------------- C27
\* The actions of the step just taken that are of the kinds given.
C27_Actions(acts) == {i \in DOMAIN ev.ext : ev.ext[i].act \in acts}

\* C27: a review that completes with an approval is finalized: the next
\* step is the finalization, and it leaves the record persisted as
\* COMPLETED, with the result reference when one is found, the tracker
\* updated for that reference, and the container stopped and removed.
C27_ApprovalFinalizes ==
    /\ (ev.kind = "monitor_review" /\ ev.outcome = "complete" /\ ev.exc = ""
          /\ wf.state = "reviewing")
          => pc = "create_pr"
    /\ ev.kind = "create_pr"
          => /\ wf.state = "completed"
             /\ disk = wf
             /\ logsPr => wf.pr_url = Some(PrUrl)
             /\ wf.pr_url # None => C27_Actions({"tracker", "tracker_failed"}) # {}
             /\ C27_Actions({"teardown"}) # {}

\* ---------------------------------------------------------------- C28
\* The review monitor found the review rejected with iterations left.
C28_RejectedBelowBound ==
    /\ ev.kind = "monitor_review"
    /\ ev.rejected
    /\ wf.review_iteration < wf.max_review_iterations

\* C28: when a review is rejected below the iteration bound, the record is
\* persisted as NEEDS_REWORK, holding the feedback text when the feedback
\* artifact exists, and the next step re-runs the execute phase; that step,
\* its launch succeeding, issues exactly one execute agent invocation whose
\* prompt carries the record's feedback text, and leaves the record
\* persisted as EXECUTING with the execute phase monitored again.
C28_ReworkReinvokesWithFeedback ==
    /\ C28_RejectedBelowBound
          => /\ wf.state = "needs_rework"
             /\ disk = wf
             /\ feedbackFile => wf.review_feedback = Some("feedback")
             /\ pc = "run_exec_feedback"
    /\ (ev.kind = "run_exec_feedback" /\ ev.exc = "")
          => /\ ev.memFrom = "needs_rework"
             /\ Cardinality(C17_Launches) = 1
             /\ \A i \in C17_Launches :
                   ev.ext[i].feedback = wf.review_feedback
             /\ wf.state = "executing"
             /\ disk = wf
             /\ pc = "monitor"
             /\ phase = "exec"

C30_ErrorHandled == ev.kind \in MonitorKinds /\ ev.outcome = "error"

\* What an error signal leaves besides the message: FAILED, persisted, the
\* monitor loop ended, the container neither stopped nor removed.
C30_FailedAndLeft ==
    /\ wf.state = "failed"
    /\ disk = wf
    /\ lastSaved = wf
    /\ pc = "returning"
    /\ ~awaiting
    /\ ~C20_TornDown
    /\ alive

\* C30 (as stated): in any phase an error signal moves the workflow to
\* FAILED with error_message equal to the signalled message, persists it,
\* ends the phase's monitoring and leaves the container in place.
C30_ErrorSignalFails ==
    C30_ErrorHandled
        => /\ C30_FailedAndLeft
           /\ wf.error_message = statusSlot[1].message

\* C30 (amended): as above, with error_message equal to the signalled
\* message when that message is non-empty, and left unset when the signal
\* has an empty message or none.
C30_ErrorSignalFailsWithNonEmptyMessage ==
    C30_ErrorHandled
        => /\ C30_FailedAndLeft
           /\ wf.error_message = IF Truthy(statusSlot[1].message)
                                 THEN statusSlot[1].message
                                 ELSE None

\* An error signal with a message, handled by the review monitor.
C30_Witness ==
    /\ ev.kind = "monitor_review"
    /\ ev.outcome = "error"
    /\ wf.state = "failed"
    /\ wf.error_message = Some("boom")
    /\ alive

\* ---------------------------------------------------------------- C31
\* The plan monitor has just handled the exit of the container.
C31_PlanExited == ev.kind = "monitor_planning" /\ ev.outcome = "exited"

\* C31: when the planner's container has exited, then if plan.md exists the
\* record is persisted as PLANNED with the plan path and the next step is
\* the execute phase run, as after a complete signal; otherwise the record
\* is persisted as FAILED with an error message that ends with the captured
\* output, no agent is launched and the phase run returns.
C31_PlanExitFallsBackToArtifact ==
    /\ (C31_PlanExited /\ planFile)
          => /\ wf.state = "planned"
             /\ wf.plan_file_path = Some("plan.md")
             /\ wf.error_message = None
             /\ disk = wf
             /\ pc = "run_execution"
    /\ (C31_PlanExited /\ ~planFile)
          => /\ wf.state = "failed"
             /\ wf.error_message
                   = Some("Planner failed. Logs:\n" \o get_container_logs(FALSE))
             /\ disk = wf
             /\ C17_Launches = {}
             /\ pc = "returning"
    /\ (ev.kind = "monitor_planning" /\ ev.outcome = "complete")
          => /\ wf.state = "planned"
             /\ disk = wf
             /\ pc = "run_execution"

\* The planner's container exited without leaving plan.md.
C31_Witness ==
    /\ C31_PlanExited
    /\ ~planFile
    /\ ~alive
    /\ wf.state = "failed"

\* ---------------------------------------------------------------- C32
\* With review disabled, the execute monitor has just handled a complete
\* signal.
C32_ExecutionComplete ==
    /\ ev.kind = "monitor_execution"
    /\ ev.outcome = "complete"
    /\ ~review_enabled

\* A pull-request URL can be extracted from the signal's message or from
\* the container's output.
C32_UrlFound == UrlIn(statusSlot[1].message) # None \/ logsPr

\* COMPLETED and persisted, the result reference recorded exactly when one
\* is found, the container stopped and removed, the phase run returning.
C32_CompletedAndTornDown ==
    /\ wf.state = "completed"
    /\ wf.error_message = None
    /\ wf.pr_url = IF C32_UrlFound THEN Some(PrUrl) ELSE None
    /\ disk = wf
    /\ C20_TornDown
    /\ pc = "returning"

\* C32 (as stated): with review disabled, when the execute monitor reports
\* complete the workflow becomes COMPLETED, with the result reference when
\* one is found and without it otherwise, the tracker is updated and the
\* container is stopped and removed.
C32_CompleteWithoutReview ==
    C32_ExecutionComplete
        => /\ C32_CompletedAndTornDown
           /\ C27_Actions({"tracker", "tracker_failed"}) # {}

\* C32 (amended): as above, with the tracker update made exactly when a
\* result reference was found.
C32_CompleteWithoutReviewTrackerIfFound ==
    C32_ExecutionComplete
        => /\ C32_CompletedAndTornDown
           /\ (C27_Actions({"tracker", "tracker_failed"}) # {}) <=> C32_UrlFound
           /\ \A i \in C27_Actions({"tracker", "tracker_failed"}) : ev.ext[i].saved

\* The result reference came from the signal's message, not the output.
C32_Witness ==
    /\ C32_ExecutionComplete
    /\ ~logsPr
    /\ wf.pr_url = Some(PrUrl)
    /\ wf.state = "completed"
    /\ C27_Actions({"tracker"}) # {}

\* ---------------------------------------------------------------- C33
\* The status the slot held at the tick just taken ("" when it was absent).
C33_SlotStatus == IF statusSlot = None THEN "" ELSE statusSlot[1].status

\* The monitor loop has ended: no further tick and no blocked wait.
C33_Stopped == pc \notin {"monitor", "wait_resume"}

\* C33: on every tick of a monitor the liveness of the container is looked
\* at before the status slot: when the container is not running the outcome
\* is exited and the loop stops, whatever the status slot holds; otherwise
\* complete and error are reported and stop the loop, blocked is reported
\* and starts the blocked wait, and an absent or 'working' slot is reported
\* as running, after which the loop takes its next tick with the record
\* unchanged.
C33_LivenessBeforeStatus ==
    ev.kind \in MonitorKinds
        => /\ ~ev.aliveFrom => (ev.outcome = "exited" /\ C33_Stopped)
           /\ (ev.aliveFrom /\ C33_SlotStatus \in {"complete", "error"})
                 => (ev.outcome = C33_SlotStatus /\ C33_Stopped)
           /\ (ev.aliveFrom /\ C33_SlotStatus = "blocked")
                 => (ev.outcome = "blocked" /\ pc = "wait_resume")
           /\ (ev.aliveFrom /\ C33_SlotStatus \in {"", "working"})
                 => /\ ev.outcome = "running"
                    /\ pc = "monitor"
                    /\ wf.state = ev.memFrom
                    /\ ev.ext = <<>>

\* The container had exited while the status slot held a complete signal.
C33_Witness ==
    /\ ev.kind \in MonitorKinds
    /\ ~ev.aliveFrom
    /\ C33_SlotStatus = "complete"
    /\ ev.outcome = "exited"

\* ---------------------------------------------------------------- C34
\* C34: while a monitor is in its blocked wait no outcome is handled, and a
\* step leaves the wait only if it is the end of the wait with the resume
\* slot present; the exit of the container, a write of the status slot and
\* a cancel leave the monitor waiting and the orchestrator's record as it
\* was.
C34_WaitEndsOnResumeOnly ==
    ev.pcFrom = "wait_resume"
        => /\ ev.kind \notin MonitorKinds
           /\ \/ /\ pc = "wait_resume"
                 /\ ev.kind # "wait_for_resume"
                 /\ wf.state = ev.memFrom
              \/ /\ ev.kind = "wait_for_resume"
                 /\ resumeSlot # None
                 /\ pc = "monitor"

\* A cancel was accepted, and stopped the container, during the blocked
\* wait; the monitor is still waiting.
C34_Witness ==
    /\ ev.pcFrom = "wait_resume"
    /\ ev.kind = "cancel"
    /\ ev.ok
    /\ ~alive
    /\ resumeSlot = None
    /\ pc = "wait_resume"

\* ---------------------------------------------------------------- C35
\* C35: each block is answered by its own response: when a monitor reports
\* blocked, no response written for an earlier block is lying in the resume
\* slot (so the wait that follows ends on a response to this block), and
\* the block reported is not one already reported and answered.
C35_EachBlockAnswered ==
    (ev.kind \in MonitorKinds /\ ev.outcome = "blocked")
        => resumeSlot = None

\* ---------------------------------------------------------------- C36
\* The step just taken was the monitor's own: a tick that reported running,
\* or the end of a blocked wait.
C36_MonitorStep ==
    \/ ev.kind = "wait_for_resume"
    \/ ev.kind \in MonitorKinds /\ ev.outcome = "running"

\* The steps of the orchestrator's handlers and of the two commands.
C36_Mutators ==
    {"start_workflow", "run_planning", "run_execution", "run_review",
     "run_exec_feedback", "create_pr", "return_save", "respond", "cancel"}
        \cup MonitorKinds

\* C36: the monitor never changes the workflow record: a tick that reports
\* running and the end of a blocked wait leave the in-memory and the stored
\* record as they were, in every field, and whenever a step changes either
\* it is a step of an orchestrator handler or of respond / cancel.
C36_MonitorLeavesRecord ==
    [][/\ C36_MonitorStep' => UNCHANGED <<wf, disk>>
       /\ <<wf, disk>>' # <<wf, disk>>
             => (ev'.kind \in C36_Mutators /\ ~C36_MonitorStep')]_vars

\* A blocked wait has ended on a response while the orchestrator's record
\* still holds the block.
C36_Witness ==
    /\ ev.kind = "wait_for_resume"
    /\ resumeSlot # None
    /\ wf.block_info # None
    /\ wf.state \in BlockedSubStates
    /\ disk.block_info = None

\* C37: every persisted mutation of the record (the container identity,
\* block_info set or cleared with the human response, review_iteration,
\* the pull-request URL) leaves updated_at not before the moment of the
\* mutation.
C37_Mutations ==
    {"assign_identity", "set_blocked", "set_unblocked", "review_iteration", "pr_url"}

C37_MomentOf(str) == CHOOSE t \in Times : isoformat(t) = str

C37_UpdatedAtCoversMutation ==
    ev.kind \in C37_Mutations
        => /\ disk = wf
           /\ NotBefore(C37_MomentOf(disk.updated_at), ev.at)

\* The same of every mutation but the assignment of the container identity.
C37_UpdatedAtCoversOtherMutations ==
    ev.kind \in C37_Mutations \ {"assign_identity"}
        => /\ disk = wf
           /\ C37_MomentOf(disk.updated_at) = ev.at

\* C38 (the state at return): when start_workflow returns, the record it
\* returns is in a terminal state or in a blocked sub-state.
C38_ReturnsTerminalOrBlocked ==
    pc = "done" => wf.state \in TerminalStates \cup BlockedSubStates

\* C38 (assumptions): from some moment on the end of the phase (complete,
\* error or the exit of the process) is there whenever the monitor polls,
\* and a response is there whenever the loop waits for one.
C38_WorkerEnds ==
    <>[](pc = "monitor" => PhaseEnded(wait_for_container(alive, statusSlot)[1]))

C38_BlocksAnswered == <>[](pc = "wait_resume" => resumeSlot # None)

C39_Answered(d) == d.human_response # None /\ d.block_info = None

C39_LoopSave ==
    /\ ev.kind \in C36_Mutators \ {"respond", "cancel"}
    /\ ev.outcome # "blocked"

C39_ResponseSurvivesLoopSaves ==
    [][(C39_LoopSave' /\ disk' # disk /\ C39_Answered(disk))
          => /\ disk'.human_response = disk.human_response
             /\ disk'.block_info = None]_vars

\* C40: with review enabled, the record becomes COMPLETED only in the
\* handlers that follow a review's approval, never in a step of the
\* execution monitor.
C40_Completes == wf.state = "completed" /\ ev.memFrom # "completed"

C40_CompletedOnlyAfterReview ==
    (review_enabled /\ C40_Completes)
        => /\ ev.kind \in {"monitor_review", "create_pr"}
           /\ ev.memFrom = "reviewing"
           /\ wf.review_iteration >= 1
====
